---- MODULE Spec2Model ----
(***************************************************************************)
(* Letter Invaders (Go / Bubble Tea): the tick- and keystroke-driven game  *)
(* engine of main.go.  The repository carries two variants of the engine:  *)
(*   "basic"    main.go lines   1..313  (no effects, cap 10, ctrl+p pause) *)
(*   "extended" main.go lines 315..720  (effects, cap 8, space pause,      *)
(*                                       minimum-word guarantee)           *)
(* The variable `variant` selects the one that is running.                 *)
(*                                                                         *)
(* m.words is a Go slice.  It is modelled by its backing array `backing`   *)
(* (whose length is the slice's capacity) and its length `n`; m.current is *)
(* a pointer to an element of a backing array, so it is modelled as a slot *)
(* index of the present backing array, or, once append has moved the slice *)
(* to a new array, as the element of the superseded array it still points  *)
(* to.                                                                     *)
(***************************************************************************)
EXTENDS Integers, Sequences, FiniteSets, TLC

\* ------------------------------------------------------------------ bounds
\* Several families of runs are explored (Spec, SpecFall, SpecLevel,
\* SpecMatch, SpecCap, SpecLive and SpecLoad below).
\*
\* Spec, the opening of a game: ticks are explored while every word is above
\* row MaxRows, and keystrokes that complete a word for the first MaxTyped
\* words.
MaxRows == 1
MaxTyped == 1
\* SpecFall, a whole game: the probabilistic spawn draw (rand.Float64() < p)
\* is explored as a success only while fewer than MaxLiveFall words fall and
\* the newest word is at most MaxGapFall rows down; keystrokes that complete
\* a word are explored for the first MaxTypedFall words, while the word is at
\* most MaxHitRowFall rows down.
MaxLiveFall == 2
MaxGapFall == 1
MaxTypedFall == 1
MaxHitRowFall == 1
\* SpecLevel, a whole game with a dictionary of one one-letter word, long
\* enough for the level to change: as SpecFall.
MaxLiveLevel == 2
MaxGapLevel == 1
MaxTypedLevel == 16
MaxHitRowLevel == 1
\* SpecCap, a crowded screen: ticks are explored while every word is above
\* row MaxRowsCap, the spawn draw succeeds only while the newest word is at
\* most MaxGapCap rows down, and keystrokes that complete a word are explored
\* for the first MaxTypedCap words.
MaxRowsCap == 10
MaxGapCap == 1
MaxTypedCap == 0
\* SpecMatch, the opening of a game whose words share their first letter: as
\* Spec.
MaxRowsMatch == 1
MaxTypedMatch == 1
\* SpecLive, a whole game under the timer's fairness: as SpecFall.
MaxLiveLive == 2
MaxGapLive == 1
MaxTypedLive == 0

\* --------------------------------------------------------------- constants
screenWidth == 80
screenHeight == 23
statusHeight == 2
gameHeight == screenHeight - statusHeight
levelEvery == 15
initialLives == 3
initialLevel == 1
baseParticles == 8
minLifetime == 3
lifetimeSpan == 3
extendedCap == 8
basicCap == 10
maxLenExtended == 12

\* Dictionaries handed to initialModel: lowercase, non-empty words.
DictPlay == << <<"b", "a", "b">>, <<"b">> >>
DictFall == << <<"b", "a", "b">> >>
DictLevel == << <<"b">> >>
DictMatch == << <<"b", "a", "b">>, <<"b", "b", "a">> >>

\* Keys delivered as tea.KeyMsg (msg.String()).
Keys == {"a", "b", "p", "q", " ", "ctrl+p", "ctrl+c", "ctrl+l", "backspace"}
KeysFall == {"a", "b", "q", " ", "ctrl+p", "ctrl+c", "backspace"}
KeysLevel == {"b", "q", " ", "ctrl+p", "ctrl+c", "backspace"}
KeysMatch == {"a", "b", " ", "ctrl+p", "ctrl+c", "backspace"}
KeysLive == {"b", " ", "ctrl+p", "ctrl+c", "backspace"}
KeysCap == {"b", " ", "ctrl+p", "ctrl+c", "backspace"}

LowerLetters ==
  {"a", "b", "c", "d", "e", "f", "g", "h", "i", "j", "k", "l", "m",
   "n", "o", "p", "q", "r", "s", "t", "u", "v", "w", "x", "y", "z"}

\* Window sizes delivered as tea.WindowSizeMsg.
SizeDraws == {<<80, 23>>, <<100, 30>>}
SizeDrawsFall == {<<80, 23>>}
SizeDrawsLevel == {<<80, 23>>}

\* SpecLoad, the start of the program: dictionary files of at most MaxLines
\* lines, each line one of ResourceLines.
MaxLines == 2
Long(k) == [i \in 1..k |-> "a"]
ResourceLines ==
  { <<>>, <<" ">>, <<"a">>, <<"B">>, <<" ", "a", "B", "\t">>, <<"a", " ", "B">>,
    <<"a", "B", "a">>, <<"a", "B", "a", "B">>,
    Long(maxLenExtended), Long(maxLenExtended + 1) }
Resources == UNION {[1..k -> ResourceLines] : k \in 0..MaxLines}

\* Outcomes of the 3 + rand.Intn(3) lifetime draws of one explosion, as a
\* function of the particle index.
LifetimeDraws == {3}
LifetimeDrawsFall == {3}
LifetimeDrawsLevel == {1}

VARIABLES variant, resource, pc, dict, backing, n, effects, score, level, lives,
          wordsTyped, current, input, gameOver, paused, width, height, quit,
          last, explore

vars == <<variant, resource, pc, dict, backing, n, effects, score, level, lives,
          wordsTyped, current, input, gameOver, paused, width, height, quit,
          last, explore>>

\* ---------------------------------------------------------- loadDictionary
\* A line of the dictionary file is a sequence of characters; `resource` is
\* the file named by -d: whether it can be read, and the sequence of lines
\* the scanner yields.
Whitespace == {" ", "\t"}

\* strings.TrimSpace
RECURSIVE TrimLeft(_)
TrimLeft(l) ==
  IF Len(l) > 0 /\ l[1] \in Whitespace THEN TrimLeft(Tail(l)) ELSE l

RECURSIVE TrimRight(_)
TrimRight(l) ==
  IF Len(l) > 0 /\ l[Len(l)] \in Whitespace
    THEN TrimRight(SubSeq(l, 1, Len(l) - 1)) ELSE l

TrimSpace(l) == TrimRight(TrimLeft(l))

\* strings.ToLower, on the letters that occur in the resources explored
LowerChar(c) ==
  CASE c = "A" -> "a"
    [] c = "B" -> "b"
    [] OTHER -> c

ToLower(l) == [i \in 1..Len(l) |-> LowerChar(l[i])]

\* The length test of the scanner loop: len(word) > 0 in the basic variant,
\* len(word) >= 1 && len(word) <= 12 in the extended one.
LengthOK(v, w) ==
  IF v = "extended" THEN Len(w) >= 1 /\ Len(w) <= maxLenExtended
  ELSE Len(w) > 0

RECURSIVE scanLoop(_, _, _, _)
scanLoop(v, lines, i, acc) ==
  IF i > Len(lines) THEN acc
  ELSE LET word == TrimSpace(lines[i])
       IN scanLoop(v, lines, i + 1,
                   IF LengthOK(v, word) THEN Append(acc, ToLower(word)) ELSE acc)

loadDictionary(v, lines) == scanLoop(v, lines, 1, <<>>)

\* ------------------------------------------------------------------- words
ZeroWord == [text |-> <<>>, x |-> 0, y |-> 0, matched |-> 0]

\* m.words: the first n elements of the backing array.
words == SubSeq(backing, 1, n)

NilPtr == [kind |-> "nil", idx |-> 0, w |-> ZeroWord]
SlotPtr(i) == [kind |-> "slot", idx |-> i, w |-> ZeroWord]
OldPtr(w) == [kind |-> "old", idx |-> 0, w |-> w]

\* *m.current, for a non-nil m.current.
Deref(c, b) == IF c.kind = "slot" THEN b[c.idx] ELSE c.w

HasPrefix(s, p) == Len(p) <= Len(s) /\ SubSeq(s, 1, Len(p)) = p

\* Mutant: the slice is shortened without the elements being moved down.
RemoveAtMut(b, len, i) == b

\* append(s[:i], s[i+1:]...) on the slice (b, len): the elements after i
\* are copied one slot down inside the same array; the last slot keeps its
\* old content.  i is 1-based.
RemoveAt(b, len, i) ==
  [j \in 1..Len(b) |-> IF j >= i /\ j < len THEN b[j + 1] ELSE b[j]]

\* Capacity chosen by append when the array is full.
GrowCap(cap) == IF cap = 0 THEN 1 ELSE 2 * cap

\* append(s, w): in place when there is room, otherwise into a new array.
AppendWord(b, len, w) ==
  IF len < Len(b)
    THEN [b EXCEPT ![len + 1] = w]
    ELSE [j \in 1..GrowCap(Len(b)) |->
            IF j <= len THEN b[j] ELSE IF j = len + 1 THEN w ELSE ZeroWord]

\* The pointer m.current after append(s, w) on the slice (b, len).
AppendPtr(c, b, len) ==
  IF c.kind = "slot" /\ len >= Len(b) THEN OldPtr(b[c.idx]) ELSE c

\* A slot past the length that m.current does not point to is never read
\* before append overwrites it; it is kept as the zero word.
Scrub(b, len, c) ==
  [j \in 1..Len(b) |->
     IF j > len /\ ~(c.kind = "slot" /\ c.idx = j) THEN ZeroWord ELSE b[j]]

\* --------------------------------------------------------------- moveWords
\* Mutant: game over only once lives is below zero.
GameOverAfterMut(lv, go) == IF lv < 0 THEN TRUE ELSE go

\* if m.lives <= 0 { m.gameOver = true }
GameOverAfter(lv, go) == IF lv <= 0 THEN TRUE ELSE go

\* Mutant: the loop stops before the first element (i > 0 for i >= 0).
RECURSIVE moveLoopMut(_, _)
moveLoopMut(st, i) ==
  IF i < 2 THEN st
  ELSE LET b1 == [st.backing EXCEPT ![i].y = @ + 1]
       IN IF b1[i].y >= gameHeight
            THEN LET lv == st.lives - 1
                 IN moveLoopMut([backing |-> RemoveAt(b1, st.n, i),
                                 n |-> st.n - 1,
                                 lives |-> lv,
                                 gameOver |-> GameOverAfter(lv, st.gameOver)],
                                i - 1)
            ELSE moveLoopMut([st EXCEPT !.backing = b1], i - 1)

\* for i := len(m.words) - 1; i >= 0; i--  (i is 1-based here)
RECURSIVE moveLoop(_, _)
moveLoop(st, i) ==
  IF i < 1 THEN st
  ELSE LET b1 == [st.backing EXCEPT ![i].y = @ + 1]
       IN IF b1[i].y >= gameHeight
            THEN LET lv == st.lives - 1
                 IN moveLoop([backing |-> RemoveAt(b1, st.n, i),
                              n |-> st.n - 1,
                              lives |-> lv,
                              gameOver |-> GameOverAfter(lv, st.gameOver)],
                             i - 1)
            ELSE moveLoop([st EXCEPT !.backing = b1], i - 1)

\* Mutant: the loop starts one element short of the end.
moveWordsMut(b, len, lv, go) ==
  moveLoop([backing |-> b, n |-> len, lives |-> lv, gameOver |-> go], len - 1)

moveWords(b, len, lv, go) ==
  moveLoop([backing |-> b, n |-> len, lives |-> lv, gameOver |-> go], len)

\* ----------------------------------------------------------------- effects
Lifetime(d, i) ==
  CASE d = 1 -> minLifetime
    [] d = 2 -> minLifetime + lifetimeSpan - 1
    [] OTHER -> minLifetime + (i % lifetimeSpan)

\* Mutant: one particle per letter instead of two.
createExplosionMut(x, y, wordLen, d) ==
  [i \in 1..(baseParticles + wordLen) |->
     [x |-> x + ((i - 1) % wordLen), y |-> y, steps |-> 0,
      lifetime |-> Lifetime(d, i - 1)]]

\* A particle: its position is (x, y) plus `steps` times its velocity.
createExplosion(x, y, wordLen, d) ==
  [i \in 1..(baseParticles + wordLen * 2) |->
     [x |-> x + ((i - 1) % wordLen), y |-> y, steps |-> 0,
      lifetime |-> Lifetime(d, i - 1)]]

RemoveIdx(s, i) == SubSeq(s, 1, i - 1) \o SubSeq(s, i + 1, Len(s))

\* Mutant: a particle is removed only once its lifetime is below zero.
RECURSIVE particleLoopMut(_, _)
particleLoopMut(ps, j) ==
  IF j < 1 THEN ps
  ELSE LET p1 == [ps[j] EXCEPT !.steps = @ + 1, !.lifetime = @ - 1]
           ps1 == [ps EXCEPT ![j] = p1]
       IN IF p1.lifetime < 0
            THEN particleLoopMut(RemoveIdx(ps1, j), j - 1)
            ELSE particleLoopMut(ps1, j - 1)

RECURSIVE particleLoop(_, _)
particleLoop(ps, j) ==
  IF j < 1 THEN ps
  ELSE LET p1 == [ps[j] EXCEPT !.steps = @ + 1, !.lifetime = @ - 1]
           ps1 == [ps EXCEPT ![j] = p1]
       IN IF p1.lifetime <= 0
            THEN particleLoop(RemoveIdx(ps1, j), j - 1)
            ELSE particleLoop(ps1, j - 1)

RECURSIVE effectLoop(_, _)
effectLoop(es, i) ==
  IF i < 1 THEN es
  ELSE LET ps == particleLoop(es[i], Len(es[i]))
       IN IF Len(ps) = 0
            THEN effectLoop(RemoveIdx(es, i), i - 1)
            ELSE effectLoop([es EXCEPT ![i] = ps], i - 1)

updateEffects(es) == effectLoop(es, Len(es))

\* ------------------------------------------------------------ maybeAddWord
\* Mutant: the cap is tested with > instead of >=.
maxWordsMut == IF variant = "extended" THEN extendedCap + 1 ELSE basicCap + 1

\* the cap tested on entry: len(m.words) >= 8, or >= 10 in the basic variant
maxWords == IF variant = "extended" THEN extendedCap ELSE basicCap

\* Mutant: the minimum is level/3, without the 1.
minWordsMut(lvl) == lvl \div 3

\* minWords := 1 + m.level/3
minWords(lvl) == 1 + (lvl \div 3)

\* Mutant: the minimum is taken one too low.
MustSpawnMut(len, lvl) == variant = "extended" /\ len < lvl \div 3

\* len(m.words) < minWords, the unconditional spawn of the extended variant.
MustSpawn(len, lvl) == variant = "extended" /\ len < minWords(lvl)

maxX(text) ==
  IF screenWidth - Len(text) - 1 < 0 THEN 0 ELSE screenWidth - Len(text) - 1

\* Outcomes of rand.Intn(maxX + 1) that are explored.
XDraws(text) == {maxX(text)}

NewWord(text, x) == [text |-> text, x |-> x, y |-> 0, matched |-> 0]

\* --------------------------------------------------------------- matchWord
\* Mutant: the scan does not stop at the first match, the last one wins.
RECURSIVE firstMatchMut(_, _, _, _)
firstMatchMut(b, len, inp, i) ==
  IF i > len THEN 0
  ELSE LET later == firstMatchMut(b, len, inp, i + 1)
       IN IF later # 0 THEN later
          ELSE IF HasPrefix(b[i].text, inp) THEN i ELSE 0

\* Index of the first word having `inp` as a prefix, 0 when there is none.
RECURSIVE firstMatch(_, _, _, _)
firstMatch(b, len, inp, i) ==
  IF i > len THEN 0
  ELSE IF HasPrefix(b[i].text, inp) THEN i
  ELSE firstMatch(b, len, inp, i + 1)

\* Mutant: the level counter is tested before the word is counted.
LevelAfterMut(lvl, wt) == IF (wt - 1) % levelEvery = 0 THEN lvl + 1 ELSE lvl

\* Mutant: the input buffer is kept when nothing matches.
NoMatchMut(b, len, inp, sc, lvl, wt, es) ==
  [backing |-> b, n |-> len, input |-> inp, current |-> NilPtr,
   score |-> sc, level |-> lvl, wordsTyped |-> wt, effects |-> es]

\* Mutant: the points are taken off the score.
HitScoreMut(sc, text, lvl) == sc - Len(text) * (lvl + 1)

\* m.score += len(w.text) * (m.level + 1)
HitScore(sc, text, lvl) == sc + Len(text) * (lvl + 1)

\* if m.wordsTyped%15 == 0 { m.level++ }, with wt the incremented counter
LevelAfter(lvl, wt) == IF wt % levelEvery = 0 THEN lvl + 1 ELSE lvl

\* "No match found - reset"
NoMatch(b, len, inp, sc, lvl, wt, es) ==
  [backing |-> b, n |-> len, input |-> <<>>, current |-> NilPtr,
   score |-> sc, level |-> lvl, wordsTyped |-> wt, effects |-> es]

matchWord(b, len, inp, sc, lvl, wt, es, d) ==
  IF Len(inp) = 0
    THEN [backing |-> b, n |-> len, input |-> inp, current |-> NilPtr,
          score |-> sc, level |-> lvl, wordsTyped |-> wt, effects |-> es]
  ELSE LET i == firstMatch(b, len, inp, 1)
       IN IF i = 0
            THEN NoMatch(b, len, inp, sc, lvl, wt, es)
          ELSE LET b1 == [b EXCEPT ![i].matched = Len(inp)]
               IN IF inp = b1[i].text
                    THEN [backing |-> RemoveAt(b1, len, i),
                          n |-> len - 1,
                          input |-> <<>>,
                          current |-> NilPtr,
                          score |-> HitScore(sc, b1[i].text, lvl),
                          level |-> LevelAfter(lvl, wt + 1),
                          wordsTyped |-> wt + 1,
                          effects |-> IF variant = "extended"
                                        THEN Append(es, createExplosion(
                                               b1[i].x, b1[i].y,
                                               Len(b1[i].text), d))
                                        ELSE es]
                    ELSE [backing |-> b1, n |-> len, input |-> inp,
                          current |-> SlotPtr(i),
                          score |-> sc, level |-> lvl, wordsTyped |-> wt,
                          effects |-> es]

\* ------------------------------------------------------------------ Update
\* Mutant: the pause flag is not consulted.
PlayingMut == ~gameOver

\* Mutant: backspace clears the whole buffer.
DropLastMut(inp) == <<>>

\* !m.paused && !m.gameOver
Playing == ~paused /\ ~gameOver

\* m.input[:len(m.input)-1], when len(m.input) > 0
DropLast(inp) == IF Len(inp) > 0 THEN SubSeq(inp, 1, Len(inp) - 1) ELSE inp

IsQuitKey(k) ==
  IF gameOver THEN k \in {"q", "ctrl+c"}
  ELSE IF variant = "extended" THEN k = "ctrl+c"
  ELSE k \in {"ctrl+c", "q"}

IsPauseKey(k) ==
  ~gameOver /\ ~IsQuitKey(k)
    /\ k = (IF variant = "extended" THEN " " ELSE "ctrl+p")

IsBackspaceKey(k) == ~gameOver /\ k = "backspace"

\* Mutant: letters are handled after game over too.
IsLetterKeyMut(k) ==
  /\ ~IsQuitKey(k) /\ ~IsPauseKey(k) /\ k # "ctrl+l" /\ k # "backspace"
  /\ k \in LowerLetters

\* The default branch of the key switch, taken by a single letter a..z.
IsLetterKey(k) ==
  /\ ~gameOver
  /\ ~IsQuitKey(k) /\ ~IsPauseKey(k) /\ k # "ctrl+l" /\ k # "backspace"
  /\ k \in LowerLetters

Msg(t, k, c) == [type |-> t, key |-> k, cmd |-> c]

\* The state main() hands to the program: the file `lines` has been loaded
\* and initialModel has run.
InitModel(lines) ==
  /\ variant \in {"basic", "extended"}
  /\ resource = [ok |-> TRUE, lines |-> lines]
  /\ pc = "run"
  /\ dict = loadDictionary(variant, lines)
  /\ backing = <<>>
  /\ n = 0
  /\ effects = <<>>
  /\ score = 0
  /\ level = initialLevel
  /\ lives = initialLives
  /\ wordsTyped = 0
  /\ current = NilPtr
  /\ input = <<>>
  /\ gameOver = FALSE
  /\ paused = FALSE
  /\ width = screenWidth
  /\ height = screenHeight
  /\ quit = FALSE
  /\ last = Msg("init", "", "tick")

\* Rows run from 0 to gameHeight - 1 on the screen; a limit of gameHeight
\* rows, or of as many words as the larger cap, is no limit.
AnyRow == gameHeight
AnyCount == basicCap

Init ==
  /\ InitModel(DictPlay)
  /\ explore = [rows |-> MaxRows, live |-> AnyCount, gap |-> AnyRow,
                typed |-> MaxTyped, hitRow |-> AnyRow,
                lifetimes |-> LifetimeDraws, sizes |-> SizeDraws,
                keys |-> Keys]

InitFall ==
  /\ InitModel(DictFall)
  /\ explore = [rows |-> AnyRow, live |-> MaxLiveFall, gap |-> MaxGapFall,
                typed |-> MaxTypedFall, hitRow |-> MaxHitRowFall,
                lifetimes |-> LifetimeDrawsFall, sizes |-> SizeDrawsFall,
                keys |-> KeysFall]

InitLevel ==
  /\ InitModel(DictLevel)
  /\ explore = [rows |-> AnyRow, live |-> MaxLiveLevel, gap |-> MaxGapLevel,
                typed |-> MaxTypedLevel, hitRow |-> MaxHitRowLevel,
                lifetimes |-> LifetimeDrawsLevel, sizes |-> SizeDrawsLevel,
                keys |-> KeysLevel]

InitMatch ==
  /\ InitModel(DictMatch)
  /\ explore = [rows |-> MaxRowsMatch, live |-> AnyCount, gap |-> AnyRow,
                typed |-> MaxTypedMatch, hitRow |-> AnyRow,
                lifetimes |-> LifetimeDrawsLevel, sizes |-> SizeDrawsLevel,
                keys |-> KeysMatch]

InitLive ==
  /\ InitModel(DictFall)
  /\ explore = [rows |-> AnyRow, live |-> MaxLiveLive, gap |-> MaxGapLive,
                typed |-> MaxTypedLive, hitRow |-> AnyRow,
                lifetimes |-> LifetimeDrawsFall, sizes |-> SizeDrawsFall,
                keys |-> KeysLive]

InitCap ==
  /\ InitModel(DictLevel)
  /\ explore = [rows |-> MaxRowsCap, live |-> AnyCount, gap |-> MaxGapCap,
                typed |-> MaxTypedCap, hitRow |-> AnyRow,
                lifetimes |-> LifetimeDrawsLevel, sizes |-> SizeDrawsLevel,
                keys |-> KeysCap]

\* The successful outcomes of the spawn draw that are explored.
DrawExplored(b, len) ==
  len < explore.live /\ (IF len = 0 THEN TRUE ELSE b[len].y <= explore.gap)

\* The ticks that are explored.
TickExplored == \A i \in 1..n : backing[i].y < explore.rows

\* The program is inside p.Run().
Running == pc = "run" /\ ~quit

\* case tickMsg, when !m.paused && !m.gameOver
Tick ==
  /\ Running /\ Playing
  /\ TickExplored
  /\ LET mv == moveWords(backing, n, lives, gameOver)
         es == IF variant = "extended" THEN updateEffects(effects) ELSE effects
     IN /\ lives' = mv.lives
        /\ gameOver' = mv.gameOver
        /\ effects' = es
        /\ IF mv.n >= maxWords
             THEN /\ backing' = Scrub(mv.backing, mv.n, current)
                  /\ n' = mv.n /\ current' = current
             ELSE \E spawn \in BOOLEAN :
                    /\ MustSpawn(mv.n, level) => spawn
                    /\ (spawn /\ ~MustSpawn(mv.n, level)) => DrawExplored(mv.backing, mv.n)
                    /\ IF spawn
                         THEN \E t \in 1..Len(dict) : \E x \in XDraws(dict[t]) :
                                LET c == AppendPtr(current, mv.backing, mv.n)
                                IN /\ backing' = Scrub(AppendWord(mv.backing, mv.n,
                                                     NewWord(dict[t], x)), mv.n + 1, c)
                                   /\ n' = mv.n + 1
                                   /\ current' = c
                         ELSE /\ backing' = Scrub(mv.backing, mv.n, current)
                              /\ n' = mv.n
                              /\ current' = current
  /\ last' = Msg("tick", "", "tick")
  /\ UNCHANGED <<variant, resource, pc, dict, explore, score, level, wordsTyped, input, paused,
                 width, height, quit>>

\* case tickMsg, when m.paused || m.gameOver
IdleTick ==
  /\ Running /\ ~Playing
  /\ last' = Msg("tick", "", "tick")
  /\ UNCHANGED <<variant, resource, pc, dict, explore, backing, n, effects, score, level, lives, wordsTyped,
                 current, input, gameOver, paused, width, height, quit>>

\* "ctrl+c" (and "q" in the basic variant or after game over)
KeyQuit(k) ==
  /\ Running /\ IsQuitKey(k)
  /\ quit' = TRUE
  /\ last' = Msg("key", k, "quit")
  /\ UNCHANGED <<variant, resource, pc, dict, explore, backing, n, effects, score, level, lives, wordsTyped,
                 current, input, gameOver, paused, width, height>>

\* the pause toggle
KeyPause(k) ==
  /\ Running /\ IsPauseKey(k)
  /\ paused' = ~paused
  /\ last' = Msg("key", k, "none")
  /\ UNCHANGED <<variant, resource, pc, dict, explore, backing, n, effects, score, level, lives, wordsTyped,
                 current, input, gameOver, width, height, quit>>

\* case "backspace"
KeyBackspace(k) ==
  /\ Running /\ IsBackspaceKey(k) /\ ~IsQuitKey(k) /\ ~IsPauseKey(k)
  /\ input' = DropLast(input)
  /\ current' = NilPtr
  /\ last' = Msg("key", k, "none")
  /\ UNCHANGED <<variant, resource, pc, dict, explore, backing, n, effects, score, level, lives, wordsTyped,
                 gameOver, paused, width, height, quit>>

\* The keystrokes completing a word that are explored.
HitExplored(inp) ==
  /\ wordsTyped < explore.typed
  /\ backing[firstMatch(backing, n, inp, 1)].y <= explore.hitRow

\* default branch: a letter is appended and matching is resolved
KeyLetter(k) ==
  /\ Running /\ IsLetterKey(k)
  /\ \E d \in explore.lifetimes :
       LET r == matchWord(backing, n, Append(input, k), score, level,
                          wordsTyped, effects, d)
       IN /\ r.wordsTyped > wordsTyped => HitExplored(Append(input, k))
          /\ backing' = Scrub(r.backing, r.n, r.current)
          /\ n' = r.n
          /\ input' = r.input
          /\ current' = r.current
          /\ score' = r.score
          /\ level' = r.level
          /\ wordsTyped' = r.wordsTyped
          /\ effects' = r.effects
  /\ last' = Msg("key", k, "none")
  /\ UNCHANGED <<variant, resource, pc, dict, explore, lives, gameOver, paused, width, height, quit>>

\* every other key: "ctrl+l" asks for a redraw, the rest are ignored; after
\* game over every key but the quit keys is ignored
KeyOther(k) ==
  /\ Running
  /\ ~IsQuitKey(k) /\ ~IsPauseKey(k) /\ ~IsBackspaceKey(k) /\ ~IsLetterKey(k)
  /\ last' = Msg("key", k, IF ~gameOver /\ k = "ctrl+l" THEN "clear" ELSE "none")
  /\ UNCHANGED <<variant, resource, pc, dict, explore, backing, n, effects, score, level, lives, wordsTyped,
                 current, input, gameOver, paused, width, height, quit>>

\* case tea.WindowSizeMsg
Resize ==
  /\ Running
  /\ \E s \in explore.sizes : width' = s[1] /\ height' = s[2]
  /\ last' = Msg("resize", "", "none")
  /\ UNCHANGED <<variant, resource, pc, dict, explore, backing, n, effects, score, level, lives, wordsTyped,
                 current, input, gameOver, paused, quit>>

Next ==
  \/ Tick
  \/ IdleTick
  \/ \E k \in explore.keys : KeyQuit(k)
  \/ \E k \in explore.keys : KeyPause(k)
  \/ \E k \in explore.keys : KeyBackspace(k)
  \/ \E k \in explore.keys : KeyLetter(k)
  \/ \E k \in explore.keys : KeyOther(k)
  \/ Resize

Spec == Init /\ [][Next]_vars

SpecFall == InitFall /\ [][Next]_vars

SpecLevel == InitLevel /\ [][Next]_vars

SpecCap == InitCap /\ [][Next]_vars

SpecMatch == InitMatch /\ [][Next]_vars

\* Every tick handler ends by returning tickCmd(), which delivers the next
\* tickMsg 500 ms later: while the program runs, a tick that can be handled
\* is handled.
SpecLive == InitLive /\ [][Next]_vars /\ WF_vars(Tick)

\* main(), before the program runs: the dictionary is loaded; an unreadable
\* file or an empty dictionary ends the process, otherwise the program is
\* started on initialModel(dict).
InitLoad ==
  /\ variant \in {"basic", "extended"}
  /\ resource \in {[ok |-> TRUE, lines |-> ls] : ls \in Resources}
                   \cup {[ok |-> FALSE, lines |-> <<>>]}
  /\ pc = "main"
  /\ dict = <<>>
  /\ backing = <<>> /\ n = 0 /\ effects = <<>>
  /\ score = 0 /\ level = initialLevel /\ lives = initialLives
  /\ wordsTyped = 0 /\ current = NilPtr /\ input = <<>>
  /\ gameOver = FALSE /\ paused = FALSE
  /\ width = screenWidth /\ height = screenHeight
  /\ quit = FALSE
  /\ last = Msg("main", "", "none")
  /\ explore = [rows |-> MaxRows, live |-> AnyCount, gap |-> AnyRow,
                typed |-> MaxTyped, hitRow |-> AnyRow,
                lifetimes |-> LifetimeDraws, sizes |-> SizeDraws,
                keys |-> Keys]

Main ==
  /\ pc = "main"
  /\ LET d == IF resource.ok THEN loadDictionary(variant, resource.lines)
              ELSE <<>>
     IN /\ dict' = d
        /\ pc' = IF resource.ok /\ Len(d) > 0 THEN "run" ELSE "exit"
        /\ last' = IF resource.ok /\ Len(d) > 0 THEN Msg("init", "", "tick")
                   ELSE Msg("main", "", "exit")
  /\ UNCHANGED <<variant, resource, explore, backing, n, effects, score, level,
                 lives, wordsTyped, current, input, gameOver, paused, width,
                 height, quit>>

SpecLoad == InitLoad /\ [][Main]_vars

TypeOK ==
  /\ n \in 0..Len(backing)
  /\ lives \in Int
  /\ current.kind \in {"nil", "slot", "old"}
  /\ current.kind = "slot" => current.idx \in 1..Len(backing)

\* ------------------------------------------------------ properties: helpers
\* The message just handled, read in the state it produced.
TickStep == last'.type = "tick"
KeyStep(k) == last'.type = "key" /\ last'.key = k

\* A keystroke that reaches the letter branch of the key switch.
LetterStep == last'.type = "key" /\ IsLetterKey(last'.key)

\* The input buffer once the letter just typed is appended.
Typed == Append(input, last'.key)

Matches(inp) == {i \in 1..n : HasPrefix(words[i].text, inp)}

\* The first word, in list order, having inp as a prefix.
First(inp) == CHOOSE i \in Matches(inp) : \A j \in Matches(inp) : i <= j

IsHit == LetterStep /\ Matches(Typed) # {} /\ words[First(Typed)].text = Typed
IsMiss == LetterStep /\ Matches(Typed) = {}

Descended(ws) == [i \in 1..Len(ws) |-> [ws[i] EXCEPT !.y = @ + 1]]
AboveBottom(w) == w.y < gameHeight
Survivors(ws) == SelectSeq(Descended(ws), AboveBottom)

Without(ws, i) == [j \in 1..(Len(ws) - 1) |-> IF j < i THEN ws[j] ELSE ws[j + 1]]

\* ---------------------------------------------------------------------- C1
\* C1: a tick handled while Playing moves every word one row down, removes
\* exactly the words whose new row is >= gameHeight, keeps the others once
\* and in order (a spawned word may follow them), and takes one life per
\* removed word.
C1_Descent ==
  [][(TickStep /\ Playing) =>
       LET kept == Survivors(words)
       IN /\ Len(words') \in {Len(kept), Len(kept) + 1}
          /\ SubSeq(words', 1, Len(kept)) = kept
          /\ lives' = lives - (Len(words) - Len(kept))]_vars

\* A tick has just removed the lowest word and kept the one above it.
C1_Witness ==
  /\ last.type = "tick" /\ ~gameOver
  /\ lives = initialLives - 1
  /\ n >= 1 /\ backing[1].y = gameHeight - 1

\* ---------------------------------------------------------------------- C2
\* C2: lives stays within 0..3 and the game-over flag is set exactly when
\* lives is 0.
C2_Lives == lives \in 0..initialLives /\ (gameOver <=> lives = 0)

\* The third word has reached the bottom.
C2_Witness == gameOver /\ lives = 0 /\ last.type = "tick"

\* ---------------------------------------------------------------------- C3
\* C3: while the current-word reference is set, the matched count of the word
\* it designates equals the length of the input buffer.
C3_MatchedIsInputLength ==
  current.kind # "nil" => Deref(current, backing).matched = Len(input)

\* ---------------------------------------------------------------------- C4
\* C4: a HIT adds length(word) * (level + 1) to the score with the level held
\* before the keystroke, adds 1 to wordsTyped, removes the first matching
\* word only, leaving every other word as it was, and leaves the input
\* buffer empty and no current word.
C4_Hit ==
  [][IsHit =>
       LET i == First(Typed)
       IN /\ score' = score + Len(words[i].text) * (level + 1)
          /\ wordsTyped' = wordsTyped + 1
          /\ words' = Without(words, i)
          /\ input' = <<>>
          /\ current' = NilPtr]_vars

\* "b" was typed with two words "b" falling, as the fifteenth word: one is
\* gone, the later one stays, and the word was paid at level 1.
C4_Witness ==
  /\ last.type = "key" /\ last.key = "b"
  /\ wordsTyped = levelEvery /\ level = initialLevel + 1
  /\ score = levelEvery * (initialLevel + 1)
  /\ n = 1 /\ words[1].text = <<"b">>
  /\ input = <<>> /\ current = NilPtr

\* ---------------------------------------------------------------------- C5
\* C5: level is 1 + floor(wordsTyped / 15) in every state, and it changes
\* only by +1, on a HIT that makes wordsTyped a multiple of 15.
C5_Level ==
  /\ [](level = initialLevel + (wordsTyped \div levelEvery))
  /\ [][level' # level =>
          /\ IsHit
          /\ level' = level + 1
          /\ wordsTyped' = wordsTyped + 1
          /\ wordsTyped' % levelEvery = 0]_vars

\* The fifteenth word has been typed.
C5_Witness == wordsTyped = levelEvery /\ level = initialLevel + 1

\* ---------------------------------------------------------------------- C6
\* C6: a tick handled while paused changes nothing of the game state and
\* schedules the next tick.
C6_PausedTick ==
  [][(TickStep /\ paused) =>
       /\ UNCHANGED <<words, effects, lives, score, level, wordsTyped,
                      input, current, gameOver, paused>>
       /\ last'.cmd = "tick"]_vars

\* A tick was handled while paused, with a word on the screen.
C6_Witness == paused /\ ~gameOver /\ last.type = "tick" /\ n >= 1

\* ---------------------------------------------------------------------- C7
\* C7: a letter keystroke handled while paused removes no word, changes no
\* matched count and changes neither score, wordsTyped nor level.
C7_PausedLetter ==
  [][(last'.type = "key" /\ last'.key \in LowerLetters /\ paused /\ ~gameOver) =>
       /\ words' = words
       /\ UNCHANGED <<score, wordsTyped, level>>]_vars

\* ---------------------------------------------------------------------- C8
\* C8: once the game is over it stays over, no message changes the game
\* state, and the program ends exactly on "q" or ctrl+c.
C8_GameOverTerminal ==
  [][gameOver =>
       /\ gameOver'
       /\ UNCHANGED <<words, effects, lives, score, level, wordsTyped,
                      input, current, paused>>
       /\ quit' <=> (last'.type = "key" /\ last'.key \in {"q", "ctrl+c"})]_vars

\* A key other than the quit keys was handled after game over.
C8_Witness ==
  /\ gameOver /\ ~quit /\ last.type = "key"
  /\ last.key \in {"a", "b", " ", "ctrl+p", "backspace"}
  /\ n >= 1

\* ---------------------------------------------------------------------- C9
\* C9: a MISS clears the input buffer and the current-word reference and
\* changes nothing else; the letter typed is not tried on its own.
C9_Miss ==
  [][IsMiss =>
       /\ input' = <<>>
       /\ current' = NilPtr
       /\ UNCHANGED <<words, effects, score, wordsTyped, level, lives,
                      gameOver, paused>>]_vars

\* "b" was typed after "b": no word starts with "bb", while a word starting
\* with "b" is falling and carries the progress made before.
C9_Witness ==
  /\ last.type = "key" /\ last.key = "b"
  /\ input = <<>> /\ current = NilPtr /\ wordsTyped = 0
  /\ \E i \in 1..n : words[i].text[1] = "b" /\ words[i].matched = 1

\* --------------------------------------------------------------------- C10
\* C10: a backspace while the game is not over drops the last character of
\* a non-empty input buffer, leaves an empty one empty, clears the
\* current-word reference and changes nothing else.
C10_Backspace ==
  [][(KeyStep("backspace") /\ ~gameOver) =>
       /\ input' = (IF input = <<>> THEN <<>>
                    ELSE SubSeq(input, 1, Len(input) - 1))
       /\ current' = NilPtr
       /\ UNCHANGED <<words, effects, score, level, lives, wordsTyped,
                      paused, gameOver>>]_vars

\* A backspace took "ba" back to "b"; the word keeps its matched count of 2.
C10_Witness ==
  /\ last.type = "key" /\ last.key = "backspace"
  /\ input = <<"b">> /\ current = NilPtr
  /\ \E i \in 1..n : words[i].matched = 2

\* --------------------------------------------------------------------- C11
\* C11 (as stated): in a tick handled while Playing, when the words left by
\* the descent are fewer than the cap and fewer than minWords = 1 + level/3,
\* a word is spawned in that tick.
C11_MinWords ==
  [][(TickStep /\ Playing) =>
       LET kept == Survivors(words)
       IN (Len(kept) < maxWords /\ Len(kept) < minWords(level)) =>
            Len(words') = Len(kept) + 1]_vars

\* C11 (amended): the same, in the extended variant.
C11_MinWordsExtended ==
  [][(TickStep /\ Playing /\ variant = "extended") =>
       LET kept == Survivors(words)
       IN (Len(kept) < maxWords /\ Len(kept) < minWords(level)) =>
            /\ Len(words') = Len(kept) + 1
            /\ words'[Len(words')].y = 0]_vars

\* The only word was typed, and the next tick put a new one at the top.
C11_Witness ==
  /\ variant = "extended" /\ last.type = "tick"
  /\ wordsTyped = 1 /\ n = 1 /\ words[1].y = 0

\* --------------------------------------------------------------------- C12
\* C12: while the game is not over, every key "a".."z" is handled as a
\* letter: it is appended to the input buffer and the buffer is resolved
\* against the words (kept on a partial match, emptied on a HIT or a MISS);
\* it neither toggles the pause nor ends the program.
C12_LettersAreLetters ==
  [][(last'.type = "key" /\ last'.key \in LowerLetters /\ ~gameOver) =>
       /\ quit' = quit
       /\ paused' = paused
       /\ last'.cmd = "none"
       /\ input' = (IF Matches(Typed) = {} THEN <<>>
                    ELSE IF words[First(Typed)].text = Typed THEN <<>>
                    ELSE Typed)]_vars

\* --------------------------------------------------------------------- C13
\* C13: level starts at 1 and never decreases, lives starts at 3 and never
\* increases, wordsTyped and score start at 0 and never decrease, whatever
\* message is handled.
C13_Monotone ==
  /\ (level = 1 /\ lives = 3 /\ wordsTyped = 0 /\ score = 0)
  /\ [][/\ level' >= level
        /\ lives' <= lives
        /\ wordsTyped' >= wordsTyped
        /\ score' >= score]_vars

\* Two words were lost and fifteen typed: every counter has moved.
C13_Witness ==
  /\ level = 2 /\ lives = 1 /\ wordsTyped = 15 /\ score = 30
  /\ last.type = "resize"

\* --------------------------------------------------------------------- C14
\* The lines of a file that, once trimmed, are non-blank and at most `limit`
\* characters long, lowercased, in file order.
WithinFilter(lines, limit) ==
  LET Kept(i) == LET t == TrimSpace(lines[i]) IN Len(t) >= 1 /\ Len(t) <= limit
      RECURSIVE Collect(_)
      Collect(i) ==
        IF i = 0 THEN <<>>
        ELSE IF Kept(i) THEN Append(Collect(i - 1), ToLower(TrimSpace(lines[i])))
        ELSE Collect(i - 1)
  IN Collect(Len(lines))

\* C14: loadDictionary returns, in file order and keeping duplicates, exactly
\* the lines that after trimming are non-blank and within the variant's
\* length filter (1 to 3 characters in the basic variant, 1 to 12 in the
\* extended one), lowercased; so every word handed to the engine is
\* non-empty, lowercase and within the filter.
C14_Load ==
  (pc # "main" /\ resource.ok) =>
    /\ dict = WithinFilter(resource.lines,
                           IF variant = "extended" THEN 12 ELSE 3)
    /\ \A i \in 1..Len(dict) :
         /\ Len(dict[i]) \in 1..(IF variant = "extended" THEN 12 ELSE 3)
         /\ \A j \in 1..Len(dict[i]) : dict[i][j] \notin {"A", "B"}

\* --------------------------------------------------------------------- C15
StatedCap == IF variant = "extended" THEN 8 ELSE 10

\* C15: there are never more words than the cap (8 in the extended variant,
\* 10 in the basic one); a tick adds at most one word to those the descent
\* left and none when they are as many as the cap; the word added is at row
\* 0; no other message adds a word.
C15_Cap ==
  /\ [](n <= StatedCap)
  /\ [][IF TickStep /\ Playing
          THEN LET kept == Survivors(words)
               IN /\ Len(words') \in {Len(kept), Len(kept) + 1}
                  /\ Len(kept) >= StatedCap => Len(words') = Len(kept)
                  /\ Len(words') = Len(kept) + 1 => words'[Len(words')].y = 0
          ELSE Len(words') <= Len(words)]_vars

\* Ten words are falling in the basic variant and the last tick, handled
\* with ten words on the screen, added none: the newest is at row 1.
C15_Witness ==
  /\ variant = "basic" /\ last.type = "tick" /\ ~paused
  /\ n = 10 /\ words[10].y = 1

\* --------------------------------------------------------------------- C16
\* C16: on a letter keystroke that some word matches, the first word in list
\* (spawn) order having the whole input buffer as a prefix is the one taken,
\* whatever the current-word reference was before: on a partial match it
\* becomes the current word with its matched count set to the buffer length,
\* on a HIT it is the word removed; no other word is modified.
C16_FirstMatch ==
  [][(LetterStep /\ Matches(Typed) # {}) =>
       LET i == First(Typed)
       IN IF words[i].text = Typed
            THEN words' = Without(words, i)
            ELSE /\ current'.kind = "slot" /\ current'.idx = i
                 /\ words' = [words EXCEPT ![i].matched = Len(Typed)]]_vars

\* "bb" was typed with "bab" and "bba" falling: the first "b" made "bab" the
\* current word, the second moved the reference to "bba"; "bab" keeps the
\* matched count it had.
C16_Witness ==
  /\ last.type = "key" /\ last.key = "b" /\ input = <<"b", "b">>
  /\ n = 2 /\ current = SlotPtr(2)
  /\ words[1].text = <<"b", "a", "b">> /\ words[1].matched = 1
  /\ words[2].text = <<"b", "b", "a">> /\ words[2].matched = 2

\* --------------------------------------------------------------------- C17
\* C17: in the extended variant a HIT appends exactly one effect, made at the
\* column and row the word had when it was hit, of 8 + 2 * length(word)
\* particles whose lifetimes are between 3 and 5; no other message (a tick,
\* with or without a word reaching the bottom, a MISS, a backspace, a pause)
\* adds an effect.
C17_HitEffect ==
  [][IF variant = "extended" /\ IsHit
       THEN LET w == words[First(Typed)]
                e == effects'[Len(effects')]
            IN /\ Len(effects') = Len(effects) + 1
               /\ SubSeq(effects', 1, Len(effects)) = effects
               /\ Len(e) = 8 + 2 * Len(w.text)
               /\ \A j \in 1..Len(e) :
                    /\ e[j].lifetime \in 3..5
                    /\ e[j].steps = 0
                    /\ e[j].y = w.y
                    /\ e[j].x \in w.x..(w.x + Len(w.text) - 1)
       ELSE Len(effects') <= Len(effects)]_vars

\* "bab" was hit at row 1: its 14 particles are there, with lifetimes from 3
\* to 5.
C17_Witness ==
  /\ variant = "extended" /\ last.type = "key" /\ last.key = "b"
  /\ wordsTyped = 1 /\ Len(effects) = 1 /\ Len(effects[1]) = 14
  /\ \A j \in 1..14 : effects[1][j].y = 1
  /\ \E j \in 1..14 : effects[1][j].lifetime = 3
  /\ \E j \in 1..14 : effects[1][j].lifetime = 5

\* --------------------------------------------------------------------- C18
Aged(p) == [p EXCEPT !.lifetime = @ - 1, !.steps = @ + 1]
Outlives(p) == p.lifetime - 1 > 0
DecayEffect(e) ==
  LET kept == SelectSeq(e, Outlives) IN [j \in 1..Len(kept) |-> Aged(kept[j])]
NonEmpty(e) == Len(e) > 0
Decay(es) == SelectSeq([i \in 1..Len(es) |-> DecayEffect(es[i])], NonEmpty)

\* C18: a tick handled while Playing takes 1 off every particle's lifetime,
\* removes exactly the particles that reach 0 and the effects left without
\* particles; so every stored particle has a lifetime of at least 1, no
\* stored effect is empty, and no particle is stored after 5 such ticks
\* (`steps` counts the ticks a particle has been through).
C18_Decay ==
  /\ [](\A i \in 1..Len(effects) :
          /\ Len(effects[i]) > 0
          /\ \A j \in 1..Len(effects[i]) :
               /\ effects[i][j].lifetime >= 1
               /\ effects[i][j].steps + effects[i][j].lifetime <= 5
               /\ effects[i][j].steps < 5)
  /\ [][(TickStep /\ Playing /\ variant = "extended") =>
          effects' = Decay(effects)]_vars

\* Four ticks after a HIT: only the particles that started with a lifetime
\* of 5 are left, on their last tick.
C18_Witness ==
  /\ variant = "extended" /\ last.type = "tick"
  /\ Len(effects) = 1 /\ Len(effects[1]) \in 1..13
  /\ \A j \in 1..Len(effects[1]) :
       effects[1][j].lifetime = 1 /\ effects[1][j].steps = 4

\* --------------------------------------------------------------------- C19
\* C19: the falling words are listed by strictly decreasing row (so their
\* rows are pairwise distinct, the oldest word being the lowest), and a tick
\* removes at most one word at the bottom and takes at most one life.
C19_DistinctRows ==
  /\ [](\A i \in 1..n : \A j \in 1..n : i < j => words[i].y > words[j].y)
  /\ [][(TickStep /\ Playing) =>
          /\ Len(words) - Len(Survivors(words)) <= 1
          /\ lives' >= lives - 1]_vars

\* No life lost yet, and two words are about to reach the bottom in
\* consecutive ticks.
C19_Witness ==
  /\ last.type = "tick" /\ lives = initialLives /\ n = 2
  /\ words[1].y = gameHeight - 1 /\ words[2].y = gameHeight - 2

\* --------------------------------------------------------------------- C20
\* C20: while the current-word reference is set it designates a word of the
\* word list, one the input buffer is a prefix of; a tick that removes a
\* word at the bottom or appends a new one does not leave it on a removed
\* word, on another word or on a copy that is no longer in the list.
C20_CurrentIsLive ==
  /\ [](current.kind # "nil" =>
          /\ current.kind = "slot"
          /\ current.idx \in 1..n
          /\ HasPrefix(words[current.idx].text, input))
  /\ [][(TickStep /\ current.kind = "slot" /\ current'.kind = "slot"
           /\ current.idx \in 1..n /\ current'.idx \in 1..n') =>
          words'[current'.idx].text = words[current.idx].text]_vars

\* --------------------------------------------------------------------- C21
\* C21: in the extended variant, with ticks arriving for as long as the
\* program runs, a game that is never paused and in which no word is ever
\* completed reaches game over: either the game is over at some point, or
\* it was paused, a word was typed, or the program was ended.
C21_EventuallyGameOver ==
  variant = "extended" =>
    <>(gameOver \/ paused \/ wordsTyped > 0 \/ quit)

\* The third word has reached the bottom in a game of the extended variant
\* that was not paused, in which nothing was typed in full.
C21_Witness ==
  /\ variant = "extended" /\ gameOver /\ lives = 0
  /\ ~paused /\ ~quit /\ wordsTyped = 0
  /\ last.type = "tick" /\ n >= 1

====
